---- MODULE Spec2Model ----
(***************************************************************************)
(* Model of Task_1.py: the World Bank demographic fetch, the sample-data   *)
(* fallback, the merge / truncation / aliasing of the record set and the   *)
(* two charts with the text summary.                                       *)
(*                                                                         *)
(* Numbers: every Python float is held as an integer number of tenths      *)
(* (18.1 is 181, 163 is 1630, a head count of 41000000 is 410000000).      *)
(* Strings that the program slices or measures are tuples of one-character *)
(* strings; strings that are only compared are TLA+ strings.               *)
(***************************************************************************)
EXTENDS Integers, Sequences, FiniteSets, TLC

(* ---------------------------------------------------------------------- *)
(* Bounds of the model                                                     *)
(* ---------------------------------------------------------------------- *)
\* rows of a long indicator table (more rows than the truncation keeps)
MaxRows == 9
\* rows of a short indicator table
ShortRows == 2

(* ---------------------------------------------------------------------- *)
(* Python helpers                                                          *)
(* ---------------------------------------------------------------------- *)
Min(a, b) == IF a < b THEN a ELSE b

\* list[:n] for n >= 0
Slice(list, n) == SubSeq(list, 1, Min(n, Len(list)))

\* [v] * n
Repeat(v, n) == [i \in 1..n |-> v]

\* dict.get(key, default)
DictGet(d, key, default) == IF key \in DOMAIN d THEN d[key] ELSE default

RECURSIVE SumSeq(_)
SumSeq(s) == IF s = <<>> THEN 0 ELSE s[1] + SumSeq(Tail(s))

\* np.mean of a list of tenths, as the exact fraction num/den of a unit
NpMean(list) == [num |-> SumSeq(list), den |-> 10 * Len(list)]

\* str(n) for n >= 0, as a tuple of characters
DigitChar(d) == <<"0", "1", "2", "3", "4", "5", "6", "7", "8", "9">>[d + 1]

RECURSIVE IntToStr(_)
IntToStr(n) == IF n < 10 THEN <<DigitChar(n)>>
               ELSE IntToStr(n \div 10) \o <<DigitChar(n % 10)>>

(* ---------------------------------------------------------------------- *)
(* INDICATORS, in dict insertion order                                     *)
(* ---------------------------------------------------------------------- *)
INDICATORS == <<"male_pop", "female_pop", "age_0_14", "age_15_64", "age_65_plus">>

IndicatorIndex(name) == CHOOSE i \in 1..Len(INDICATORS) : INDICATORS[i] = name

(* ---------------------------------------------------------------------- *)
(* JSON values of a response body.  Every cell is one record shape:       *)
(*   dict  {"id": id, "value": s}     str  s     num  n (tenths)     null  *)
(* ---------------------------------------------------------------------- *)
JDict(id, name) == [kind |-> "dict", id |-> id, s |-> name, n |-> 0]
JStr(chars)     == [kind |-> "str",  id |-> <<>>, s |-> chars, n |-> 0]
JNum(tenths)    == [kind |-> "num",  id |-> <<>>, s |-> <<>>, n |-> tenths]
JNull           == [kind |-> "null", id |-> <<>>, s |-> <<>>, n |-> 0]

\* rows the API can answer with: country code, display name and the five
\* indicator values of the row
ApiRows == <<
  [id |-> <<"U","S">>, name |-> <<"U","n","i","t","e","d"," ","S","t","a","t","e","s">>,
   male_pop |-> JNum(1650000000), female_pop |-> JNum(1680000000),
   age_0_14 |-> JNum(181), age_15_64 |-> JNum(650), age_65_plus |-> JNum(169)],
  [id |-> <<"S","A">>, name |-> <<"S","a","u","d","i"," ","A","r","a","b","i","a">>,
   male_pop |-> JNum(210000000), female_pop |-> JNull,
   age_0_14 |-> JStr(<<"n","/","a">>), age_15_64 |-> JStr(<<"7","1",".","6">>),
   age_65_plus |-> JNum(28)],
  [id |-> <<"B","R">>, name |-> <<"B","r","a","z","i","l">>,
   male_pop |-> JNum(1060000000), female_pop |-> JNum(1090000000),
   age_0_14 |-> JNum(211), age_15_64 |-> JNum(696), age_65_plus |-> JNum(93)],
  [id |-> <<"D","E">>, name |-> <<"G","e","r","m","a","n","y">>,
   male_pop |-> JNum(410000000), female_pop |-> JNum(420000000),
   age_0_14 |-> JNum(139), age_15_64 |-> JNum(649), age_65_plus |-> JNum(212)],
  [id |-> <<"J","P">>, name |-> <<"J","a","p","a","n">>,
   male_pop |-> JNum(610000000), female_pop |-> JNum(640000000),
   age_0_14 |-> JNum(125), age_15_64 |-> JNum(592), age_65_plus |-> JNum(283)],
  [id |-> <<"G","B">>, name |-> <<"U","n","i","t","e","d"," ","K","i","n","g","d","o","m">>,
   male_pop |-> JNum(330000000), female_pop |-> JNum(340000000),
   age_0_14 |-> JNum(179), age_15_64 |-> JNum(642), age_65_plus |-> JNum(179)],
  [id |-> <<"F","R">>, name |-> <<"F","r","a","n","c","e">>,
   male_pop |-> JNum(330000000), female_pop |-> JNum(350000000),
   age_0_14 |-> JNum(179), age_15_64 |-> JNum(617), age_65_plus |-> JNum(204)],
  [id |-> <<"M","X">>, name |-> <<"M","e","x","i","c","o">>,
   male_pop |-> JNum(620000000), female_pop |-> JNum(650000000),
   age_0_14 |-> JNum(250), age_15_64 |-> JNum(670), age_65_plus |-> JNum(80)],
  [id |-> <<"I","T">>, name |-> <<"I","t","a","l","y">>,
   male_pop |-> JNum(290000000), female_pop |-> JNum(300000000),
   age_0_14 |-> JNum(126), age_15_64 |-> JNum(636), age_65_plus |-> JNum(238)] >>

ApiRow(i) == ApiRows[((i - 1) % Len(ApiRows)) + 1]

(* ---------------------------------------------------------------------- *)
(* Indicator tables the API can answer with                                *)
(* ---------------------------------------------------------------------- *)
\* country cell of a row: code + display name, plain display name, or a
\* coded first row followed by plain rows
CountryCell(shape, i) ==
  IF shape.country = "Coded" \/ (shape.country = "Mixed" /\ i = 1)
  THEN JDict(ApiRow(i + shape.off).id, ApiRow(i + shape.off).name)
  ELSE JStr(ApiRow(i + shape.off).name)

\* one per-country JSON object of data[1]
JsonRow(name, shape, i) ==
  [k \in (IF shape.country = "Absent" THEN {} ELSE {"country"})
          \cup (IF shape.value THEN {"value"} ELSE {}) |->
     IF k = "country" THEN CountryCell(shape, i)
     ELSE ApiRow(i + shape.off)[name]]

JsonRows(name, shape) == [i \in 1..shape.n |-> JsonRow(name, shape, i)]

TableShapes == {
  [n |-> MaxRows,   country |-> "Coded",  value |-> TRUE,  off |-> 0],
  [n |-> ShortRows, country |-> "Coded",  value |-> TRUE,  off |-> 1],
  [n |-> 1,         country |-> "Plain",  value |-> TRUE,  off |-> 0],
  [n |-> ShortRows, country |-> "Absent", value |-> TRUE,  off |-> 0],
  [n |-> ShortRows, country |-> "Mixed",  value |-> TRUE,  off |-> 0],
  [n |-> ShortRows, country |-> "Coded",  value |-> FALSE, off |-> 0],
  [n |-> 1,         country |-> "Absent", value |-> FALSE, off |-> 0] }

(* ---------------------------------------------------------------------- *)
(* Responses of requests.get                                               *)
(* ---------------------------------------------------------------------- *)
\* elements of a top-level JSON array: the paging header, null, or the
\* array of per-country objects
JMeta       == [kind |-> "meta", rows |-> <<>>]
JNone       == [kind |-> "null", rows |-> <<>>]
JList(rows) == [kind |-> "rows", rows |-> rows]

JsonArray(items) == [type |-> "array",  items |-> items, nkeys |-> 0]
JsonObject(n)    == [type |-> "object", items |-> <<>>,  nkeys |-> n]
JsonNumber       == [type |-> "number", items |-> <<>>,  nkeys |-> 0]

NoBody == JsonArray(<<>>)

\* what one GET can come back with
Responses(name) ==
  { [kind |-> "RequestException", body |-> NoBody],
    [kind |-> "InvalidJSON",      body |-> NoBody],
    [kind |-> "json", body |-> JsonArray(<<JMeta>>)],
    [kind |-> "json", body |-> JsonArray(<<JMeta, JNone>>)],
    [kind |-> "json", body |-> JsonObject(2)],
    [kind |-> "json", body |-> JsonNumber] }
  \cup { [kind |-> "json", body |-> JsonArray(<<JMeta, JList(JsonRows(name, sh))>>)] :
           sh \in TableShapes }

\* the kind of answer, as the caller of the API sees it
ResponseClass(resp) ==
  CASE resp.kind = "RequestException" -> "failure"
    [] resp.kind = "InvalidJSON"      -> "invalid_json"
    [] resp.body.type = "number"      -> "not_array"
    [] resp.body.type = "object"      ->
         IF resp.body.nkeys > 1 THEN "not_array" ELSE "short_object"
    [] Len(resp.body.items) < 2       -> "short_array"
    [] resp.body.items[2].kind = "rows" /\ resp.body.items[2].rows # <<>> -> "non_empty"
    [] OTHER                          -> "empty"

(* ---------------------------------------------------------------------- *)
(* fetch_wb_demographic_data: one iteration of the loop                    *)
(* ---------------------------------------------------------------------- *)
\* bool(data[1])
Truthy(elem) == elem.kind = "meta" \/ (elem.kind = "rows" /\ elem.rows # <<>>)

\* pd.DataFrame(list of dicts): the columns are the union of the keys
DataFrame(rows) ==
  [columns |-> UNION {DOMAIN rows[i] : i \in 1..Len(rows)}, rows |-> rows]

\* df.empty
DfEmpty(df) == Len(df.rows) = 0 \/ df.columns = {}

\* df[col] as a list; a row without the key holds NaN
Column(df, col) ==
  [i \in 1..Len(df.rows) |->
     IF col \in DOMAIN df.rows[i] THEN df.rows[i][col] ELSE JNull]

\* the try body of one iteration: "except" (RequestException caught),
\* "store", "skip", or the exception that leaves the function
FetchOutcome_uncaught(resp, json_error_is_request_exception) ==
  CASE resp.kind = "RequestException" -> "RequestException"
    [] resp.kind = "InvalidJSON" ->
         IF json_error_is_request_exception THEN "except" ELSE "JSONDecodeError"
    [] resp.body.type = "number" -> "TypeError"
    [] resp.body.type = "object" ->
         IF resp.body.nkeys > 1 THEN "KeyError" ELSE "skip"
    [] OTHER ->
         IF Len(resp.body.items) > 1 /\ Truthy(resp.body.items[2])
         THEN "store" ELSE "skip"

FetchOutcome_nolen(resp, json_error_is_request_exception) ==
  CASE resp.kind = "RequestException" -> "except"
    [] resp.kind = "InvalidJSON" ->
         IF json_error_is_request_exception THEN "except" ELSE "JSONDecodeError"
    [] resp.body.type = "number" -> "TypeError"
    [] resp.body.type = "object" -> "KeyError"
    [] OTHER ->
         IF Len(resp.body.items) < 2 THEN "IndexError"
         ELSE IF Truthy(resp.body.items[2]) THEN "store" ELSE "skip"

FetchOutcome(resp, json_error_is_request_exception) ==
  CASE resp.kind = "RequestException" -> "except"
    [] resp.kind = "InvalidJSON" ->
         IF json_error_is_request_exception THEN "except" ELSE "JSONDecodeError"
    [] resp.body.type = "number" -> "TypeError"
    [] resp.body.type = "object" ->
         IF resp.body.nkeys > 1 THEN "KeyError" ELSE "skip"
    [] OTHER ->
         IF Len(resp.body.items) > 1 /\ Truthy(resp.body.items[2])
         THEN "store" ELSE "skip"

(* ---------------------------------------------------------------------- *)
(* create_sample_demographic_data                                          *)
(* ---------------------------------------------------------------------- *)
create_sample_demographic_data_typo ==
  [k \in {"countries", "male_population", "female_population",
          "age_0_14_percent", "age_15_64_percent", "age_65_plus_percent"} |->
     CASE k = "countries" ->
            << <<"U","n","i","t","e","d"," ","S","t","a","t","e","s">>,
               <<"C","h","i","n","a">>,
               <<"I","n","d","i","a">>,
               <<"G","e","r","m","a","n","y">>,
               <<"J","a","p","a","n">>,
               <<"B","r","a","z","i","l">>,
               <<"U","n","i","t","e","d"," ","K","i","n","g","d","o","m">>,
               <<"F","r","a","n","c","e">> >>
       [] k = "male_population"     -> <<1630, 7230, 7170, 410, 610, 1060, 330, 330>>
       [] k = "female_population"   -> <<1680, 6890, 6630, 420, 640, 1090, 340, 350>>
       [] k = "age_0_14_percent"    -> <<181, 173, 262, 139, 125, 211, 179, 179>>
       [] k = "age_15_64_percent"   -> <<650, 701, 670, 649, 592, 696, 642, 617>>
       [] k = "age_65_plus_percent" -> <<169, 126, 68, 212, 238, 93, 179, 204>>]

create_sample_demographic_data ==
  [k \in {"countries", "male_population", "female_population",
          "age_0_14_percent", "age_15_64_percent", "age_65_plus_percent"} |->
     CASE k = "countries" ->
            << <<"U","n","i","t","e","d"," ","S","t","a","t","e","s">>,
               <<"C","h","i","n","a">>,
               <<"I","n","d","i","a">>,
               <<"G","e","r","m","a","n","y">>,
               <<"J","a","p","a","n">>,
               <<"B","r","a","z","i","l">>,
               <<"U","n","i","t","e","d"," ","K","i","n","g","d","o","m">>,
               <<"F","r","a","n","c","e">> >>
       [] k = "male_population"     -> <<1630, 7230, 7170, 410, 610, 1060, 330, 330>>
       [] k = "female_population"   -> <<1680, 6890, 6630, 420, 640, 1090, 340, 350>>
       [] k = "age_0_14_percent"    -> <<181, 173, 262, 139, 125, 211, 179, 179>>
       [] k = "age_15_64_percent"   -> <<650, 701, 670, 649, 592, 696, 642, 617>>
       [] k = "age_65_plus_percent" -> <<169, 126, 68, 212, 283, 93, 179, 204>>]

(* ---------------------------------------------------------------------- *)
(* Module level, lines 66-88: fetched data or sample data                  *)
(* ---------------------------------------------------------------------- *)
\* if wb_data and len(wb_data) > 2
UseFetchedData_one(wb) == DOMAIN wb # {} /\ Cardinality(DOMAIN wb) > 1

UseFetchedData(wb) == DOMAIN wb # {} /\ Cardinality(DOMAIN wb) > 2

\* list(wb_data.values())[0]: the table of the first indicator stored
FirstDataset(wb) ==
  wb[INDICATORS[CHOOSE i \in 1..Len(INDICATORS) :
       /\ INDICATORS[i] \in DOMAIN wb
       /\ \A j \in 1..(i - 1) : INDICATORS[j] \notin DOMAIN wb]]

\* lines 71-77: the country names, or the exception raised on the way.
\* The cells of a "country" column are dicts or strings here; the list of
\* names holds the characters of each name.
ResolveCountries_code(first) ==
  IF "country" \in first.columns
  THEN LET col == Column(first, "country") IN
       IF col[1].kind = "dict"
       THEN IF \A i \in 1..Len(col) : col[i].kind = "dict"
            THEN [error |-> "", countries |-> [i \in 1..Len(col) |-> col[i].id]]
            ELSE [error |-> "TypeError", countries |-> <<>>]
       ELSE [error |-> "", countries |-> [i \in 1..Len(col) |-> col[i].s]]
  ELSE [error |-> "",
        countries |-> [i \in 1..Len(first.rows) |->
                         <<"C","o","u","n","t","r","y","_">> \o IntToStr(i)]]

ResolveCountries(first) ==
  IF "country" \in first.columns
  THEN LET col == Column(first, "country") IN
       IF col[1].kind = "dict"
       THEN IF \A i \in 1..Len(col) : col[i].kind = "dict"
            THEN [error |-> "", countries |-> [i \in 1..Len(col) |-> col[i].s]]
            ELSE [error |-> "TypeError", countries |-> <<>>]
       ELSE [error |-> "", countries |-> [i \in 1..Len(col) |-> col[i].s]]
  ELSE [error |-> "",
        countries |-> [i \in 1..Len(first.rows) |->
                         <<"C","o","u","n","t","r","y","_">> \o IntToStr(i)]]

\* float(text) for the decimal texts of the tables: digits with at most one
\* fractional digit give the number in tenths, anything else is NaN
IsDigit(c) == c \in {"0", "1", "2", "3", "4", "5", "6", "7", "8", "9"}

DigitValue(c) == CHOOSE d \in 0..9 : DigitChar(d) = c

RECURSIVE DigitsToInt(_)
DigitsToInt(chars) ==
  IF chars = <<>> THEN 0
  ELSE 10 * DigitsToInt(SubSeq(chars, 1, Len(chars) - 1)) + DigitValue(chars[Len(chars)])

AllDigits(chars) == chars # <<>> /\ \A i \in 1..Len(chars) : IsDigit(chars[i])

ParseFloat(chars) ==
  IF AllDigits(chars)
  THEN [nan |-> FALSE, v |-> 10 * DigitsToInt(chars)]
  ELSE IF Len(chars) >= 3 /\ chars[Len(chars) - 1] = "."
          /\ AllDigits(SubSeq(chars, 1, Len(chars) - 2)) /\ IsDigit(chars[Len(chars)])
  THEN [nan |-> FALSE,
        v |-> 10 * DigitsToInt(SubSeq(chars, 1, Len(chars) - 2))
              + DigitValue(chars[Len(chars)])]
  ELSE [nan |-> TRUE, v |-> 0]

\* pd.to_numeric(cell, errors='coerce')
ToNumeric(cell) ==
  CASE cell.kind = "num" -> [nan |-> FALSE, v |-> cell.n]
    [] cell.kind = "str" -> ParseFloat(cell.s)
    [] OTHER             -> [nan |-> TRUE, v |-> 0]

\* pd.to_numeric(df['value'], errors='coerce').fillna(0).tolist()
NumericValues(df) ==
  [i \in 1..Len(df.rows) |->
     LET x == ToNumeric(Column(df, "value")[i]) IN IF x.nan THEN 0 ELSE x.v]

\* lines 81-84: the indicators whose values enter data, and the first
\* of them (in dict order) whose table has no "value" column
MergedIndicators(wb) == {name \in DOMAIN wb : ~DfEmpty(wb[name])}

MergeKeyError(wb) ==
  \E name \in MergedIndicators(wb) : "value" \notin wb[name].columns

\* lines 69-84: data on the fetched path
MergeFetched(wb) ==
  LET res == ResolveCountries(FirstDataset(wb)) IN
  IF res.error # "" THEN [error |-> res.error, data |-> <<>>]
  ELSE IF MergeKeyError(wb) THEN [error |-> "KeyError", data |-> <<>>]
  ELSE [error |-> "",
        data |-> [k \in {"countries"} \cup MergedIndicators(wb) |->
                    IF k = "countries" THEN res.countries ELSE NumericValues(wb[k])]]

(* ---------------------------------------------------------------------- *)
(* Module level, lines 91-109: truncation, labels, aliasing                *)
(* ---------------------------------------------------------------------- *)
\* line 91
NumCountries_all(d) == Len(d["countries"])

NumCountries(d) == Min(8, Len(d["countries"]))

\* lines 92-94: every value of data is a list
Truncate(d, n) == [k \in DOMAIN d |-> Slice(d[k], n)]

\* line 96, one label
ShortLabel_ge(country) ==
  IF Len(country) >= 12 THEN SubSeq(country, 1, 12) \o <<".", ".", ".">> ELSE country

ShortLabel(country) ==
  IF Len(country) > 12 THEN Slice(country, 12) \o <<".", ".", ".">> ELSE country

\* lines 99-105
MaleData_zero(d, n) ==
  IF "male_population" \in DOMAIN d /\ "female_population" \in DOMAIN d
  THEN d["male_population"]
  ELSE Slice(DictGet(d, "male_pop", Repeat(0, n)), n)

MaleData(d, n) ==
  IF "male_population" \in DOMAIN d /\ "female_population" \in DOMAIN d
  THEN d["male_population"]
  ELSE Slice(DictGet(d, "male_pop", Repeat(1000, n)), n)

FemaleData(d, n) ==
  IF "male_population" \in DOMAIN d /\ "female_population" \in DOMAIN d
  THEN d["female_population"]
  ELSE Slice(DictGet(d, "female_pop", Repeat(1000, n)), n)

\* lines 107-109
Age0_14(d, n) ==
  Slice(DictGet(d, "age_0_14_percent", DictGet(d, "age_0_14", Repeat(200, n))), n)

Age15_64(d, n) ==
  Slice(DictGet(d, "age_15_64_percent", DictGet(d, "age_15_64", Repeat(650, n))), n)

Age65Plus(d, n) ==
  Slice(DictGet(d, "age_65_plus_percent", DictGet(d, "age_65_plus", Repeat(150, n))), n)

(* ---------------------------------------------------------------------- *)
(* Module level, lines 112-160: charts and summary                         *)
(* ---------------------------------------------------------------------- *)
\* ax.bar(x, height): the two broadcast unless both are longer than one
\* and of different lengths
BarShapesBroadcast(nx, nheight) == nx = nheight \/ nx = 1 \/ nheight = 1

\* f"{value:.1f}" of a fraction of a unit: the nearest tenth, ties to even
FormatOneDecimal(avg) ==
  LET q == (avg.num * 10) \div avg.den
      r == (avg.num * 10) % avg.den
  IN  IF 2 * r > avg.den \/ (2 * r = avg.den /\ q % 2 = 1) THEN q + 1 ELSE q

(* ---------------------------------------------------------------------- *)
(* State                                                                   *)
(* ---------------------------------------------------------------------- *)
VARIABLES
  pc,              \* position of the script
  error,           \* the uncaught exception, "" while running
  next_indicator,  \* index into INDICATORS of the loop in the fetch
  requested,       \* the requests made so far: <<name, ResponseClass>>
  all_data,        \* fetch: indicator name -> DataFrame
  printed,         \* console lines
  wb_data,         \* module level: the fetch's return value
  data,            \* module level: the record set
  num_countries,
  countries_short,
  male_data,
  female_data,
  age_0_14,
  age_15_64,
  age_65_plus,
  avg_age_dist

fetch_vars  == <<next_indicator, requested, all_data>>
alias_vars  == <<male_data, female_data, age_0_14, age_15_64, age_65_plus>>
vars == <<pc, error, next_indicator, requested, all_data, printed, wb_data, data,
          num_countries, countries_short, male_data, female_data,
          age_0_14, age_15_64, age_65_plus, avg_age_dist>>

\* {} as a dict
EmptyDict == [k \in {} |-> <<>>]

\* d[key] = v
DictSet(d, key, v) == [k \in DOMAIN d \cup {key} |-> IF k = key THEN v ELSE d[k]]

Init ==
  /\ pc = "fetch"
  /\ error = ""
  /\ next_indicator = 1
  /\ requested = <<>>
  /\ all_data = EmptyDict
  /\ printed = << <<"Fetching World Bank demographic data...">> >>
  /\ wb_data = EmptyDict
  /\ data = EmptyDict
  /\ num_countries = 0
  /\ countries_short = <<>>
  /\ male_data = <<>>
  /\ female_data = <<>>
  /\ age_0_14 = <<>>
  /\ age_15_64 = <<>>
  /\ age_65_plus = <<>>
  /\ avg_age_dist = <<>>

\* an earlier invalid body of this run was caught as a RequestException
JsonErrorWasCaught == \E j \in 1..Len(requested) : requested[j][2] = "invalid_json"

\* lines 21-40: one indicator is requested
FetchIndicator ==
  /\ pc = "fetch"
  /\ next_indicator <= Len(INDICATORS)
  /\ LET name == INDICATORS[next_indicator] IN
     \E resp \in Responses(name) :
     \E json_error_is_request_exception \in BOOLEAN :
       /\ JsonErrorWasCaught => json_error_is_request_exception
       /\ LET outcome == FetchOutcome(resp, json_error_is_request_exception) IN
          /\ requested' = Append(requested, <<name, ResponseClass(resp)>>)
          /\ IF outcome = "store"
             THEN /\ all_data' = DictSet(all_data, name, DataFrame(resp.body.items[2].rows))
                  /\ printed' = Append(printed, <<"Fetched", name>>)
                  /\ UNCHANGED <<pc, error>>
                  /\ next_indicator' = next_indicator + 1
             ELSE IF outcome = "except"
             THEN /\ printed' = Append(printed, <<"Error fetching", name>>)
                  /\ UNCHANGED <<pc, error, all_data>>
                  /\ next_indicator' = next_indicator + 1
             ELSE IF outcome = "skip"
             THEN /\ UNCHANGED <<pc, error, all_data, printed>>
                  /\ next_indicator' = next_indicator + 1
             ELSE /\ pc' = "crashed"
                  /\ error' = outcome
                  /\ UNCHANGED <<all_data, printed, next_indicator>>
  /\ UNCHANGED <<wb_data, data, num_countries, countries_short, alias_vars, avg_age_dist>>

\* lines 42, 63: the loop is over, the mapping is returned
FetchReturn ==
  /\ pc = "fetch"
  /\ next_indicator > Len(INDICATORS)
  /\ wb_data' = all_data
  /\ pc' = "fetched"
  /\ UNCHANGED <<error, fetch_vars, printed, data,
                 num_countries, countries_short, alias_vars, avg_age_dist>>

\* lines 66-84: three or more indicators, data is built from the tables
ProcessWorldBankData ==
  /\ pc = "fetched"
  /\ UseFetchedData(wb_data)
  /\ printed' = Append(printed, <<"Processing World Bank data...">>)
  /\ LET m == MergeFetched(wb_data) IN
     IF m.error = ""
     THEN /\ data' = m.data
          /\ pc' = "merged"
          /\ UNCHANGED error
     ELSE /\ pc' = "crashed"
          /\ error' = m.error
          /\ UNCHANGED data
  /\ UNCHANGED <<fetch_vars, wb_data,
                 num_countries, countries_short, alias_vars, avg_age_dist>>

\* lines 86-88: otherwise the sample data
UseSampleData ==
  /\ pc = "fetched"
  /\ ~UseFetchedData(wb_data)
  /\ printed' = Append(printed, <<"Using sample demographic data...">>)
  /\ data' = create_sample_demographic_data
  /\ pc' = "merged"
  /\ UNCHANGED <<error, fetch_vars, wb_data,
                 num_countries, countries_short, alias_vars, avg_age_dist>>

\* lines 91-94
TruncateData ==
  /\ pc = "merged"
  /\ num_countries' = NumCountries(data)
  /\ data' = Truncate(data, NumCountries(data))
  /\ pc' = "truncated"
  /\ UNCHANGED <<error, fetch_vars, printed, wb_data,
                 countries_short, alias_vars, avg_age_dist>>

\* line 96
ShortenLabels ==
  /\ pc = "truncated"
  /\ countries_short' = [i \in 1..Len(data["countries"]) |-> ShortLabel(data["countries"][i])]
  /\ pc' = "labelled"
  /\ UNCHANGED <<error, fetch_vars, printed, wb_data, data,
                 num_countries, alias_vars, avg_age_dist>>

\* lines 99-109
AliasFields ==
  /\ pc = "labelled"
  /\ male_data' = MaleData(data, num_countries)
  /\ female_data' = FemaleData(data, num_countries)
  /\ age_0_14' = Age0_14(data, num_countries)
  /\ age_15_64' = Age15_64(data, num_countries)
  /\ age_65_plus' = Age65Plus(data, num_countries)
  /\ pc' = "aliased"
  /\ UNCHANGED <<error, fetch_vars, printed, wb_data, data,
                 num_countries, countries_short, avg_age_dist>>

\* lines 112-149: the two charts; the bars of the first chart need heights
\* that broadcast against the positions
DrawCharts ==
  /\ pc = "aliased"
  /\ IF /\ BarShapesBroadcast(Len(countries_short), Len(male_data))
        /\ BarShapesBroadcast(Len(countries_short), Len(female_data))
     THEN /\ avg_age_dist' = <<NpMean(age_0_14), NpMean(age_15_64), NpMean(age_65_plus)>>
          /\ pc' = "charted"
          /\ UNCHANGED error
     ELSE /\ pc' = "crashed"
          /\ error' = "ValueError"
          /\ UNCHANGED avg_age_dist
  /\ UNCHANGED <<fetch_vars, printed, wb_data, data,
                 num_countries, countries_short, alias_vars>>

\* lines 152-160
PrintSummary ==
  /\ pc = "charted"
  /\ printed' = printed \o
       << <<"Countries analyzed", Len(countries_short)>>,
          <<"Children (0-14)", FormatOneDecimal(NpMean(age_0_14))>>,
          <<"Working age (15-64)", FormatOneDecimal(NpMean(age_15_64))>>,
          <<"Elderly (65+)", FormatOneDecimal(NpMean(age_65_plus))>> >>
  /\ pc' = "done"
  /\ UNCHANGED <<error, fetch_vars, wb_data, data,
                 num_countries, countries_short, alias_vars, avg_age_dist>>

Next ==
  \/ FetchIndicator
  \/ FetchReturn
  \/ ProcessWorldBankData
  \/ UseSampleData
  \/ TruncateData
  \/ ShortenLabels
  \/ AliasFields
  \/ DrawCharts
  \/ PrintSummary

Spec == Init /\ [][Next]_vars

(* ====================================================================== *)
(* Properties                                                              *)
(* ====================================================================== *)
Printed(line) == \E i \in 1..Len(printed) : printed[i][1] = line

PrintedFor(line, name) ==
  \E i \in 1..Len(printed) :
    printed[i][1] = line /\ Len(printed[i]) = 2 /\ printed[i][2] = name

OnFetchedPath == Printed("Processing World Bank data...")
OnSamplePath  == Printed("Using sample demographic data...")

\* the exception left fetch_wb_demographic_data
FetchCrashed == pc = "crashed" /\ ~OnFetchedPath /\ ~OnSamplePath

\* the first n entries of a list, in order
FirstEntries(list, n) == [i \in 1..Min(n, Len(list)) |-> list[i]]

(* ---------------------------------------------------------------------- *)
\* C1: the data handed on is the sample data whenever wb_data holds two or
\* fewer indicators, and is built from the fetched tables only when it
\* holds three or more; one or two fetched indicators are never used.
InvC1 ==
  /\ OnSamplePath  => Cardinality(DOMAIN wb_data) <= 2
  /\ OnFetchedPath => Cardinality(DOMAIN wb_data) >= 3
  /\ pc = "merged" =>
       IF Cardinality(DOMAIN wb_data) <= 2
       THEN /\ OnSamplePath
            /\ data = create_sample_demographic_data
       ELSE /\ OnFetchedPath
            /\ DOMAIN data \subseteq {"countries"} \cup DOMAIN wb_data
            /\ \A k \in DOMAIN data \ {"countries"} :
                 /\ Len(data[k]) = Len(wb_data[k].rows)
                 /\ \A i \in 1..Len(data[k]) :
                      LET x == ToNumeric(wb_data[k].rows[i]["value"])
                      IN  data[k][i] = IF x.nan THEN 0 ELSE x.v

WitC1 ==
  /\ pc = "merged"
  /\ Cardinality(DOMAIN wb_data) = 2
  /\ data = create_sample_demographic_data

(* ---------------------------------------------------------------------- *)
\* C2: the truncation leaves at most 8 countries and no more than before,
\* and every list of the data is the first min(8, country count) entries
\* of what it was, in the same order.
PropC2 ==
  [][ (pc = "merged" /\ pc' = "truncated") =>
        /\ Len(data'["countries"]) <= 8
        /\ Len(data'["countries"]) <= Len(data["countries"])
        /\ DOMAIN data' = DOMAIN data
        /\ \A k \in DOMAIN data :
             data'[k] = FirstEntries(data[k], Min(8, Len(data["countries"]))) ]_vars

WitC2 ==
  /\ pc = "truncated"
  /\ OnFetchedPath
  /\ Len(FirstDataset(wb_data).rows) > 8
  /\ Len(data["countries"]) = 8

(* ---------------------------------------------------------------------- *)
\* C3: when every request ends in a failure, an empty payload or a
\* non-empty payload, no failure stops the loop: all five indicators are
\* requested and the mapping returned holds exactly the indicators that
\* answered with a non-empty payload.
OnlyPlainOutcomes ==
  \A j \in 1..Len(requested) : requested[j][2] \in {"failure", "empty", "non_empty"}

InvC3 ==
  OnlyPlainOutcomes =>
    /\ ~FetchCrashed
    /\ pc = "fetch" =>
         /\ Len(requested) = next_indicator - 1
         /\ DOMAIN all_data =
              {INDICATORS[j] : j \in {i \in 1..Len(requested) : requested[i][2] = "non_empty"}}
    /\ pc # "fetch" =>
         /\ Len(requested) = Len(INDICATORS)
         /\ \A j \in 1..Len(INDICATORS) : requested[j][1] = INDICATORS[j]
         /\ DOMAIN wb_data =
              {INDICATORS[j] : j \in {i \in 1..Len(INDICATORS) : requested[i][2] = "non_empty"}}

WitC3 ==
  /\ pc = "fetched"
  /\ OnlyPlainOutcomes
  /\ requested[1][2] = "failure"
  /\ requested[2][2] = "non_empty"
  /\ requested[3][2] = "empty"
  /\ DOMAIN wb_data = {"female_pop", "age_65_plus"}

(* ---------------------------------------------------------------------- *)
\* C4: a field with neither its sample key nor its fetched key in the data
\* is the default everywhere (100, 100, 20, 65, 15); with one of the keys
\* present the values under that key are used.
FieldIsAliased(list, sample_key, fetched_key, default) ==
  IF sample_key \in DOMAIN data THEN list = data[sample_key]
  ELSE IF fetched_key \in DOMAIN data THEN list = data[fetched_key]
  ELSE /\ Len(list) = Len(data["countries"])
       /\ \A i \in 1..Len(list) : list[i] = default

InvC4 ==
  pc \in {"aliased", "charted", "done"} =>
    /\ FieldIsAliased(male_data,   "male_population",     "male_pop",    1000)
    /\ FieldIsAliased(female_data, "female_population",   "female_pop",  1000)
    /\ FieldIsAliased(age_0_14,    "age_0_14_percent",    "age_0_14",    200)
    /\ FieldIsAliased(age_15_64,   "age_15_64_percent",   "age_15_64",   650)
    /\ FieldIsAliased(age_65_plus, "age_65_plus_percent", "age_65_plus", 150)

WitC4 ==
  /\ pc = "aliased"
  /\ "male_population" \notin DOMAIN data
  /\ "male_pop" \notin DOMAIN data
  /\ Len(male_data) > 1
  /\ \A i \in 1..Len(male_data) : male_data[i] = 1000
  /\ "female_pop" \in DOMAIN data
  /\ female_data = data["female_pop"]

(* ---------------------------------------------------------------------- *)
\* C5: the label of a name longer than 12 characters is its first 12
\* characters followed by "...", any other name is its own label, and the
\* names stored in the data stay as they were.
IsLabelOf(label, country) ==
  IF Len(country) > 12
  THEN /\ Len(label) = 15
       /\ \A j \in 1..12 : label[j] = country[j]
       /\ \A j \in 13..15 : label[j] = "."
  ELSE label = country

PropC5 ==
  [][ (pc = "truncated" /\ pc' = "labelled") =>
        /\ data' = data
        /\ Len(countries_short') = Len(data["countries"])
        /\ \A i \in 1..Len(data["countries"]) :
             IsLabelOf(countries_short'[i], data["countries"][i]) ]_vars

WitC5 ==
  /\ pc = "labelled"
  /\ \E i \in 1..Len(countries_short) :
       Len(data["countries"][i]) = 13 /\ Len(countries_short[i]) = 15
  /\ \E i \in 1..Len(countries_short) :
       Len(data["countries"][i]) = 12 /\ countries_short[i] = data["countries"][i]

(* ---------------------------------------------------------------------- *)
\* C6: with an empty mapping from the fetch the eight sample countries are
\* used, the count reported is 8, and the averages are 18.11 (age 0-14)
\* and 16.68 (age 65+) to two decimals.
\* |avg - hundredths/100| <= 0.005
IsToTwoDecimals(avg, hundredths) ==
  LET diff == avg.num * 1000 - hundredths * 10 * avg.den
  IN  diff <= 5 * avg.den /\ -diff <= 5 * avg.den

InvC6 ==
  (pc = "done" /\ DOMAIN wb_data = {}) =>
    /\ Len(data["countries"]) = 8
    /\ data["countries"][1] = <<"U","n","i","t","e","d"," ","S","t","a","t","e","s">>
    /\ data["countries"][8] = <<"F","r","a","n","c","e">>
    /\ \E i \in 1..Len(printed) : printed[i] = <<"Countries analyzed", 8>>
    /\ IsToTwoDecimals(avg_age_dist[1], 1811)
    /\ IsToTwoDecimals(avg_age_dist[3], 1668)

WitC6 ==
  /\ pc = "done"
  /\ DOMAIN wb_data = {}
  /\ \A j \in 1..Len(requested) : requested[j][2] \in {"failure", "empty"}
  /\ avg_age_dist[1] = [num |-> 1449, den |-> 80]

(* ---------------------------------------------------------------------- *)
\* C7: on the fetched path the names come from the first stored table: the
\* "value" of every coded entry (never the code), the plain strings as
\* they are, or Country_1, Country_2, ... one per row without the column.
HasCountry(df, kind) ==
  \A i \in 1..Len(df.rows) :
    "country" \in DOMAIN df.rows[i] /\ df.rows[i]["country"].kind = kind

InvC7 ==
  (pc = "merged" /\ OnFetchedPath) =>
    LET first == FirstDataset(wb_data) IN
    /\ Len(data["countries"]) = Len(first.rows)
    /\ HasCountry(first, "dict") =>
         \A i \in 1..Len(first.rows) : data["countries"][i] = first.rows[i]["country"].s
    /\ HasCountry(first, "str") =>
         \A i \in 1..Len(first.rows) : data["countries"][i] = first.rows[i]["country"].s
    /\ (\A i \in 1..Len(first.rows) : "country" \notin DOMAIN first.rows[i]) =>
         /\ data["countries"][1] = <<"C","o","u","n","t","r","y","_","1">>
         /\ \A i \in 1..Len(first.rows) :
              data["countries"][i] = <<"C","o","u","n","t","r","y","_">> \o IntToStr(i)

WitC7 ==
  /\ pc = "merged"
  /\ OnFetchedPath
  /\ HasCountry(FirstDataset(wb_data), "dict")
  /\ Len(data["countries"]) > 1
  /\ data["countries"][2] = <<"S","a","u","d","i"," ","A","r","a","b","i","a">>

(* ---------------------------------------------------------------------- *)
\* C8: the male and female populations handed to the charts are in
\* millions, the fetched head counts being converted to millions.
InMillions(head_count) == head_count \div 1000000

HeadCount(name, i) ==
  LET x == ToNumeric(wb_data[name].rows[i]["value"]) IN IF x.nan THEN 0 ELSE x.v

InvC8 ==
  (pc = "aliased" /\ OnFetchedPath) =>
    /\ "male_pop" \in DOMAIN data =>
         \A i \in 1..Len(male_data) : male_data[i] = InMillions(HeadCount("male_pop", i))
    /\ "female_pop" \in DOMAIN data =>
         \A i \in 1..Len(female_data) : female_data[i] = InMillions(HeadCount("female_pop", i))

RowIsCountry(name, i) ==
  /\ i <= Len(wb_data[name].rows)
  /\ i <= Len(data["countries"])
  /\ "country" \in DOMAIN wb_data[name].rows[i] =>
       wb_data[name].rows[i]["country"].s = data["countries"][i]

ListIsAligned(list, name) ==
  /\ Len(list) = Len(countries_short)
  /\ (OnFetchedPath /\ name \in DOMAIN data) =>
       \A i \in 1..Len(list) : RowIsCountry(name, i) /\ list[i] = HeadCount(name, i)

InvC10 ==
  pc = "aliased" =>
    /\ ListIsAligned(male_data, "male_pop")
    /\ ListIsAligned(female_data, "female_pop")
    /\ ListIsAligned(age_0_14, "age_0_14")
    /\ ListIsAligned(age_15_64, "age_15_64")
    /\ ListIsAligned(age_65_plus, "age_65_plus")

====
